---- MODULE Spec2Model ----
(***************************************************************************)
(* Model of qml-locate's resilient request pipeline                        *)
(* (app/routing.py, class RoutingClient) for one logical request:          *)
(* _get_json_with_retry -> attempt -> _single_json_get, the timeout race   *)
(* between on_timeout and finish, and _maybe_retry with its backoff timer. *)
(*                                                                         *)
(* Qt facts the model relies on (QtNetwork, QtCore):                       *)
(*  - signals connected to Python callables in the emitter's thread are    *)
(*    delivered synchronously (direct connection);                         *)
(*  - QNetworkReply::abort() on a running reply sets the error             *)
(*    OperationCanceledError and emits finished() before it returns;       *)
(*  - a single-shot QTimer is inactive while its timeout slot runs;        *)
(*  - deleteLater() on a stopped timer / finished reply ends its life.     *)
(***************************************************************************)
EXTENDS Integers, Sequences, FiniteSets, TLC

VARIABLES
    retry_enabled,  \* RoutingClient._retry_enabled
    retries,        \* RoutingClient._retries
    phase,          \* "Idle" before the public call, "Issued" after it
    kind,           \* which public operation was called
    timeout_ms,     \* timeout_ms captured by _get_json_with_retry's closure
    attempts_left,  \* nonlocal counter of _get_json_with_retry
    att,            \* the unresolved attempts: reply, timeout timer, finished() connection
    backoff,        \* number of armed backoff QTimers of _maybe_retry
    calls,          \* Transport calls made so far (self._nam.get)
    okCount,        \* invocations of the caller's on_ok
    errCount,       \* invocations of the caller's on_err
    last,           \* what the most recent attempt resolution did
    hist            \* classes of all attempt outcomes handled so far

VARIABLES
    js,             \* the decoded JSON body handed to an adapter (finish: on_ok(js))
    result,         \* the adapter's calls of its on_ok / on_err, in order
    points,         \* argument of simplify_path_latlon
    tol_deg,        \* argument of simplify_path_latlon
    simp,           \* what simplify_path_latlon returned
    idx,            \* nonlocal idx of _fallback_ip_async
    latitude,       \* Backend._lat
    longitude,      \* Backend._lon
    statusText,     \* Backend._status
    armed,          \* armed backoff QTimers of the Backend's requests, per request
    isBusy,             \* Backend._isBusy
    route_points,       \* Backend._route_points
    route_distance_m,   \* Backend._route_distance_m
    route_duration_s,   \* Backend._route_duration_s
    destination_text,   \* Backend._destination_text
    geo_src,            \* Backend._geo_src
    geo_timeout         \* Backend._geo_timeout

(* the request pipeline's variables *)
pipe == <<retry_enabled, retries, phase, kind, timeout_ms, attempts_left, att,
          backoff, calls, okCount, errCount, last, hist>>

(* the variables of the adapters, of the path simplifier and of the IP lookup *)
adapterVars == <<js, result>>
simplifyVars == <<points, tol_deg, simp>>
ipVars == <<idx, latitude, longitude, statusText, armed>>
backendVars == <<isBusy, route_points, route_distance_m, route_duration_s,
                 destination_text, geo_src, geo_timeout>>
aux == <<adapterVars, simplifyVars, ipVars, backendVars>>

vars == <<retry_enabled, retries, phase, kind, timeout_ms, attempts_left, att,
          backoff, calls, okCount, errCount, last, hist,
          js, result, points, tol_deg, simp,
          idx, latitude, longitude, statusText, armed,
          isBusy, route_points, route_distance_m, route_duration_s,
          destination_text, geo_src, geo_timeout>>

----------------------------------------------------------------------------
(* Bounds of the model *)

MaxRetries == 1
MaxLive == 2
MaxBackoff == 2
MaxCalls == 3
MaxCb == 2

(* Python's None for "no HTTP status attribute" *)
NoStatus == -1

StatusSet == {NoStatus, 200, 404, 503}
TimeoutChoices == {0, 7}
Kinds == {"geocode", "route", "json"}
NetErrors == {"NoError", "ConnectionRefusedError", "OtherError"}
Bodies == {"notjson", "empty", "good", "bad"}

Max(a, b) == IF a >= b THEN a ELSE b

(* counters are kept up to a bound; beyond it values are not told apart *)
Inc(n, bound) == IF n < bound THEN n + 1 ELSE n
Dec(n) == IF n > 0 - MaxCalls THEN n - 1 ELSE n

----------------------------------------------------------------------------
(* Pure helpers of routing.py *)

(* mutant of transient: the 5xx range misses its lower end *)
transient_off_by_one(status) ==
    \/ status = NoStatus
    \/ status = 0
    \/ status = 429
    \/ (500 < status /\ status < 600)

(* _maybe_retry, line 197: the status-based transient test *)
transient(status) ==
    \/ status = NoStatus
    \/ status = 0
    \/ status = 429
    \/ (500 <= status /\ status < 600)

(* _qt_error_string: the message finish passes on for a network-level error *)
qt_error_string(err) ==
    CASE err = "OperationCanceledError" -> "Request canceled."
      [] err = "ConnectionRefusedError" -> "Connection refused."
      [] err = "HostNotFoundError" -> "Host not found."
      [] err = "TimeoutError" -> "Network timeout."
      [] OTHER -> "Network error."

(* _http_error_message: "HTTP <code>", possibly prefixed by a body message; the
   code is kept in the status field of the outcome *)
http_error_message(body) == IF body = "bad" THEN "detail (HTTP error)" ELSE "HTTP error"

(* finish, lines 246-269: what a completed reply is turned into.
   json.loads of an undecodable body raises; an empty body is read as "{}". *)
FinishOutcome(err, status, body) ==
    IF err # "NoError"
      THEN [cont |-> "on_err", msg |-> qt_error_string(err), status |-> status]
    ELSE IF body = "notjson"
      THEN [cont |-> "on_err", msg |-> "Invalid JSON response.", status |-> status]
    ELSE IF status # NoStatus /\ ~(200 <= status /\ status < 300)
      THEN [cont |-> "on_err", msg |-> http_error_message(body), status |-> status]
    ELSE [cont |-> "on_ok", msg |-> body, status |-> status]

(* _parse_nominatim (146-161) and parse_route (101-116) on a decoded body;
   json_get_async hands the body to the caller's on_ok as it is. *)
Adapter(k, body) ==
    CASE k = "geocode" ->
           IF body = "empty" THEN [ok |-> FALSE, msg |-> "Destination not found."]
           ELSE IF body = "good" THEN [ok |-> TRUE, msg |-> ""]
           ELSE [ok |-> FALSE, msg |-> "Geocoding parse error."]
      [] k = "route" ->
           IF body = "empty" THEN [ok |-> FALSE, msg |-> "No route found."]
           ELSE IF body = "good" THEN [ok |-> TRUE, msg |-> ""]
           ELSE [ok |-> FALSE, msg |-> "Failed to parse route."]
      [] OTHER -> [ok |-> TRUE, msg |-> ""]

----------------------------------------------------------------------------
(* The mutable part of the state a handler's continuations update in turn *)

Mem == [backoff |-> backoff, okCount |-> okCount, errCount |-> errCount,
        log |-> <<>>, hist |-> hist]

(* the caller's on_err, reached through the final_err lambdas (76, 122, 139) *)
caller_on_err(m, msg) ==
    [m EXCEPT !.errCount = Inc(@, MaxCb)]

(* the caller's on_ok *)
caller_on_ok(m) ==
    [m EXCEPT !.okCount = Inc(@, MaxCb)]

(* mutant of maybe_retry: the retry_enabled test is missing *)
maybe_retry_always(m, msg, status) ==
    IF transient(status)
      THEN [m EXCEPT !.backoff = @ + 1,
                     !.hist = @ \cup {"Transient"},
                     !.log = Append(@, [cont |-> "on_err", msg |-> msg, status |-> status,
                                        transient |-> TRUE, did |-> "backoff"])]
      ELSE [caller_on_err(m, msg) EXCEPT
                     !.hist = @ \cup {"Fatal"},
                     !.log = Append(@, [cont |-> "on_err", msg |-> msg, status |-> status,
                                        transient |-> FALSE, did |-> "final_err"])]

(* _maybe_retry, lines 189-210 *)
maybe_retry(m, msg, status) ==
    IF transient(status) /\ retry_enabled
      THEN [m EXCEPT !.backoff = @ + 1,
                     !.hist = @ \cup {"Transient"},
                     !.log = Append(@, [cont |-> "on_err", msg |-> msg, status |-> status,
                                        transient |-> TRUE, did |-> "backoff"])]
      ELSE [caller_on_err(m, msg) EXCEPT
                     !.hist = @ \cup {IF transient(status) THEN "Transient" ELSE "Fatal"},
                     !.log = Append(@, [cont |-> "on_err", msg |-> msg, status |-> status,
                                        transient |-> transient(status),
                                        did |-> "final_err"])]

(* on_ok of _get_json_with_retry: the adapter of the request kind *)
on_ok(m, body, status) ==
    LET r == Adapter(kind, body)
        m1 == IF r.ok THEN caller_on_ok(m) ELSE caller_on_err(m, r.msg)
    IN  [m1 EXCEPT !.hist = @ \cup {"Success"},
                   !.log = Append(@, [cont |-> "on_ok", msg |-> r.msg, status |-> status,
                                      transient |-> FALSE,
                                      did |-> IF r.ok THEN "on_ok" ELSE "parse_err"])]

(* cleanup, lines 271-281: disconnect finish, timer.deleteLater, reply.deleteLater *)
cleanup(s) ==
    [s EXCEPT !.connected = FALSE, !.timer = "deleted", !.reply = "deleted"]

(* finish, lines 240-269, run on memory m for a reply that ended (err, status, body) *)
finish(m, err, status, body) ==
    LET o == FinishOutcome(err, status, body)
    IN  IF o.cont = "on_ok" THEN on_ok(m, body, status)
        ELSE maybe_retry(m, o.msg, o.status)

----------------------------------------------------------------------------
(* the adapters, the simplifier and the IP lookup before they are used *)
AdapterIdle == js = <<>> /\ result = <<>>
SimplifyIdle == points = <<>> /\ tol_deg = 0 /\ simp = <<>>

(* Backend.__init__, lines 39-41: the default position and status *)
IpIdle ==
    /\ idx = 0
    /\ latitude = [num |-> 523759, den |-> 10000]
    /\ longitude = [num |-> 105268, den |-> 10000]
    /\ statusText = "Idle"
    /\ armed = <<0, 0>>

(* Backend.__init__, lines 42-57: not busy, no route, no position source *)
BackendIdle ==
    /\ isBusy = FALSE
    /\ route_points = <<>>
    /\ route_distance_m = [num |-> 0, den |-> 1]
    /\ route_duration_s = [num |-> 0, den |-> 1]
    /\ destination_text = <<>>
    /\ geo_src = "None"
    /\ geo_timeout = "None"

----------------------------------------------------------------------------
(* State after RoutingClient.__init__ and before any public call *)

Init ==
    /\ retry_enabled \in BOOLEAN
    /\ retries \in 0..MaxRetries
    /\ phase = "Idle"
    /\ kind = "none"
    /\ timeout_ms = 0
    /\ attempts_left = 0
    /\ att = <<>>
    /\ backoff = 0
    /\ calls = 0
    /\ okCount = 0
    /\ errCount = 0
    /\ last = [via |-> "none", aborts |-> 0, log |-> <<>>, res |-> <<>>, inp |-> <<>>]
    /\ hist = {}
    /\ AdapterIdle
    /\ SimplifyIdle
    /\ IpIdle
    /\ BackendIdle

(* the attempts that can still be resolved *)
Live == 1..Len(att)

(* reply.isRunning() of attempt a *)
Running(a) == att[a].reply = "running"

(* att without its a-th attempt: its closure is gone once it is resolved *)
Drop(a) == [i \in 1..(Len(att) - 1) |-> IF i < a THEN att[i] ELSE att[i + 1]]

(* _single_json_get, lines 219-238 and 288-289: the reply, the timeout timer armed
   for max(1, timeout_ms), and the finished() connection *)
single_json_get(t) ==
    [reply |-> "running", timer |-> "active", interval |-> Max(1, t), connected |-> TRUE]

(* attempt(), lines 177-185 *)
attempt(left, t) ==
    /\ Len(att) < MaxLive
    /\ attempts_left' = Dec(left)
    /\ calls' = Inc(calls, MaxCalls)
    /\ att' = Append(att, single_json_get(t))

(* writes a handler's memory back *)
Commit(m) ==
    /\ backoff' = m.backoff
    /\ okCount' = m.okCount
    /\ errCount' = m.errCount
    /\ hist' = m.hist

(* geocode_async / route_async / json_get_async, lines 51-140, and
   _get_json_with_retry, lines 165-187 *)
Request(k, blank, t) ==
    /\ phase = "Idle"
    /\ phase' = "Issued"
    /\ kind' = k
    /\ IF k = "geocode" /\ blank
         THEN /\ Commit(caller_on_err(Mem, "Destination not found."))
              /\ UNCHANGED <<timeout_ms, attempts_left, att, calls>>
         ELSE /\ timeout_ms' = t
              /\ attempt(1 + (IF retry_enabled THEN retries ELSE 0), t)
              /\ UNCHANGED <<backoff, okCount, errCount, hist>>
    /\ UNCHANGED <<retry_enabled, retries, last>>
    /\ UNCHANGED aux

(* the reply of attempt a ends by itself and emits finished(): finish, lines 240-269 *)
TransportFinish(a, err, status, body) ==
    /\ Running(a)
    /\ att[a].connected
    /\ err # "NoError" => body = "empty"   \* the body of a failed reply is not read
    /\ err = "ConnectionRefusedError" => status = NoStatus   \* no response at all
    /\ err = "NoError" => status # NoStatus   \* a completed HTTP exchange has a status
    /\ LET m == finish(Mem, err, status, body)
       IN  /\ m.backoff <= MaxBackoff
           /\ Commit(m)
           /\ last' = [via |-> "finish", aborts |-> 0, log |-> m.log,
                       res |-> <<cleanup(att[a])>>,
                       inp |-> <<[err |-> err, status |-> status, body |-> body]>>]
    /\ att' = Drop(a)
    /\ UNCHANGED <<retry_enabled, retries, phase, kind, timeout_ms, attempts_left, calls>>
    /\ UNCHANGED aux

(* the timeout timer of attempt a fires: on_timeout, lines 230-235. reply.abort()
   emits finished() at once, so the still connected finish runs inside it and
   reads the status attribute hs (NoStatus unless the headers had arrived). *)
TimerFire(a, hs) ==
    /\ att[a].timer = "active"
    /\ LET aborted == Running(a)
           m1 == IF aborted /\ att[a].connected
                   THEN finish(Mem, "OperationCanceledError", hs, "empty")
                   ELSE Mem
           m2 == maybe_retry(m1, "Request timed out.", NoStatus)
       IN  /\ m2.backoff <= MaxBackoff
           /\ Commit(m2)
           /\ last' = [via |-> "timeout", aborts |-> IF aborted THEN 1 ELSE 0,
                       log |-> m2.log, res |-> <<cleanup(att[a])>>,
                       inp |-> <<[err |-> "OperationCanceledError", status |-> hs,
                                  body |-> "empty"]>>]
    /\ att' = Drop(a)
    /\ UNCHANGED <<retry_enabled, retries, phase, kind, timeout_ms, attempts_left, calls>>
    /\ UNCHANGED aux

(* a backoff timer fires: fire, lines 203-205, then attempt() *)
BackoffFire ==
    /\ backoff > 0
    /\ backoff' = backoff - 1
    /\ attempt(attempts_left, timeout_ms)
    /\ UNCHANGED <<retry_enabled, retries, phase, kind, timeout_ms,
                   okCount, errCount, last, hist>>
    /\ UNCHANGED aux

(* the environment's moves: the caller, the transport and the event loop's timers *)
Call == \E k \in Kinds, blank \in BOOLEAN, t \in TimeoutChoices : Request(k, blank, t)

Reply ==
    \E a \in Live, err \in NetErrors, status \in StatusSet, body \in Bodies :
        TransportFinish(a, err, status, body)

Timeout(a) == \E hs \in StatusSet : a \in Live /\ TimerFire(a, hs)

Next ==
    \/ Call
    \/ Reply
    \/ \E a \in 1..MaxLive : Timeout(a)
    \/ BackoffFire

Spec == Init /\ [][Next]_vars

(* The classification of one completed attempt over the whole status range: the
   request is issued and its first reply arrives with any status of StatusRange. *)
StatusRange == 100..599

ReplyAnyStatus ==
    \E a \in Live, err \in NetErrors, status \in StatusRange, body \in Bodies :
        TransportFinish(a, err, status, body)

NextClassify ==
    \/ \E k \in Kinds, t \in TimeoutChoices : Request(k, FALSE, t)
    \/ ReplyAnyStatus

ClassifySpec == Init /\ [][NextClassify]_vars

(* armed timers eventually fire; a reply may never complete by itself *)
FairSpec ==
    /\ Spec
    /\ WF_vars(BackoffFire)
    /\ \A a \in 1..MaxLive : WF_vars(Timeout(a))

----------------------------------------------------------------------------
(* Shorthands for the properties *)

(* the caller has received a final result *)
Terminal == okCount + errCount > 0

(* the retry budget of _get_json_with_retry, line 175 *)
Budget == 1 + (IF retry_enabled THEN retries ELSE 0)

(* an attempt has just been resolved *)
Resolved == last.via # "none"

----------------------------------------------------------------------------
(* C1: with retries enabled and maxRetries = N, while every attempt has ended in a
   Transient outcome at most 1+N Transport calls are made, and once those 1+N
   attempts are all resolved the request has failed and nothing is scheduled. *)
C1_ExactlyBudgetCalls ==
    (/\ retry_enabled /\ phase = "Issued" /\ hist \subseteq {"Transient"}
     /\ Resolved => (last.inp[1].err = "NoError" /\ last.inp[1].status = 503)) =>
        /\ calls <= Budget
        /\ (calls = Budget /\ att = <<>>) => (errCount = 1 /\ backoff = 0)

(* C2: an issued request eventually delivers a final result. States in which the
   model's bound on armed backoff timers is reached are left out of the obligation. *)
C2_EventuallyTerminal ==
    (phase = "Issued") ~> (Terminal \/ backoff >= MaxBackoff)

(* C3: the caller's on_ok and on_err are invoked at most once in total per request
   (the safety half of "exactly once"). *)
C3_AtMostOneResult == okCount + errCount <= 1

(* C4: at most one Transport call of the request is in flight at any instant. *)
C4_OneInFlight == Len(att) <= 1

(* C5: the continuation (on_ok / on_err) of one attempt runs at most once. *)
C5_FinalizeOnce == Len(last.log) <= 1

(* C6: with retries disabled a Transient first outcome fails the request after
   exactly one Transport call, whatever maxRetries is, and no backoff timer is armed. *)
C6_DisabledFailsAfterOneCall ==
    ~retry_enabled =>
        /\ backoff = 0
        /\ calls <= 1
        /\ \A i \in 1..Len(last.log) : last.log[i].did # "backoff"
        /\ ("Transient" \in hist) => (calls = 1 /\ att = <<>> /\ errCount >= 1 /\ okCount = 0)

(* the witness of C6: retries disabled with maxRetries > 0, one 503 answered *)
C6_Witness ==
    /\ ~retry_enabled /\ retries > 0
    /\ last.via = "finish"
    /\ last.inp[1].status = 503 /\ last.inp[1].err = "NoError"
    /\ last.log[1].transient
    /\ errCount = 1

(* the most recent resolution is a reply that ended in a Fatal outcome: an error
   continuation for a status that is neither 2xx, nor 429, nor 5xx *)
FatalReply ==
    /\ last.via = "finish"
    /\ last.log[1].cont = "on_err"
    /\ ~last.log[1].transient
    /\ ~(200 <= last.log[1].status /\ last.log[1].status < 300)

(* C7: a Fatal outcome fails the request at once, and from then on no backoff
   timer is started and no further Transport call is made. *)
C7_FatalEndsRequest ==
    [][FatalReply => /\ last.log[1].did = "final_err"
                     /\ errCount >= 1
                     /\ backoff' <= backoff
                     /\ Len(att') <= Len(att)]_vars

(* C8: a timeout aborts the running reply once and records the attempt once, as
   the Transient outcome "Request timed out." without a status, its timer having
   been armed for max(1, timeout_ms). *)
C8_TimeoutRecordedOnce ==
    last.via = "timeout" =>
        /\ last.aborts = 1
        /\ last.res[1].interval = Max(1, timeout_ms)
        /\ Len(last.log) = 1
        /\ last.log[1].msg = "Request timed out."
        /\ last.log[1].status = NoStatus
        /\ last.log[1].transient

(* C10: an attempt that ends with a transport-level error is handled as Transient
   whatever status accompanies it. *)
C10_TransportErrorTransient ==
    (Resolved /\ last.inp[1].err # "NoError") => last.log[1].transient

(* C9: an attempt that completed without a transport error is classified by its
   status, for every status in 100..599: 2xx is Success (the decoded body goes to
   on_ok), 429 and 5xx are Transient (retried when retries are enabled), every
   other status is Fatal (fails at once). *)
C9_StatusClassification ==
    (last.via = "finish" /\ last.inp[1].err = "NoError"
                         /\ last.inp[1].status \in StatusRange) =>
        LET s == last.inp[1].status
            b == last.inp[1].body
            e == last.log[1]
            ok2xx == 200 <= s /\ s <= 299
            trans == s = 429 \/ (500 <= s /\ s <= 599)
        IN  /\ Len(last.log) = 1
            /\ (ok2xx /\ b # "notjson") => (e.cont = "on_ok" /\ ~e.transient)
            /\ trans => /\ e.cont = "on_err" /\ e.transient
                        /\ e.did = (IF retry_enabled THEN "backoff" ELSE "final_err")
                        /\ backoff = (IF retry_enabled THEN 1 ELSE 0)
            /\ (~ok2xx /\ ~trans) => /\ e.cont = "on_err" /\ ~e.transient
                                     /\ e.did = "final_err"
                                     /\ backoff = 0 /\ errCount = 1

(* the witness of C9: a 500 answered without a transport error, handled as Transient *)
C9_Witness ==
    /\ last.via = "finish"
    /\ last.inp[1].err = "NoError" /\ last.inp[1].status = 500
    /\ last.log[1].transient
    /\ retry_enabled /\ backoff = 1

----------------------------------------------------------------------------
(* the most recent resolution is a 2xx reply without a transport error whose body
   is not JSON, or is JSON the adapter of the request kind cannot parse *)
MalformedReply ==
    /\ last.via = "finish"
    /\ last.inp[1].err = "NoError"
    /\ 200 <= last.inp[1].status /\ last.inp[1].status < 300
    /\ \/ last.inp[1].body = "notjson"
       \/ ~Adapter(kind, last.inp[1].body).ok

(* C11: a malformed 2xx body fails the request without a retry: the failure is
   reported at once and from then on no backoff timer is armed and no further
   Transport call is made. *)
C11_MalformedNotRetried ==
    [][MalformedReply => /\ last.log[1].did \in {"final_err", "parse_err"}
                         /\ errCount >= 1
                         /\ backoff' <= backoff
                         /\ Len(att') <= Len(att)]_vars

----------------------------------------------------------------------------
(* Decoded JSON bodies: what json.loads (finish, line 261) hands to on_ok.
   Numbers are exact fractions num/den with den > 0, strings are sequences of
   characters, objects are functions from their keys. *)

Null == [t |-> "null"]
Bool(b) == [t |-> "bool", b |-> b]
Num(n, d) == [t |-> "num", num |-> n, den |-> d]
Str(s) == [t |-> "str", s |-> s]
Arr(a) == [t |-> "arr", a |-> a]
Obj(o) == [t |-> "obj", o |-> o]

(* Python truth value, as used by "x or default" and "if not x" *)
Truthy(v) ==
    CASE v.t = "null" -> FALSE
      [] v.t = "bool" -> v.b
      [] v.t = "num" -> v.num # 0
      [] v.t = "str" -> v.s # <<>>
      [] v.t = "arr" -> v.a # <<>>
      [] v.t = "obj" -> DOMAIN v.o # {}

(* x or default *)
Or(v, default) == IF Truthy(v) THEN v ELSE default

(* dict.get(k) and dict.get(k, default) of an object v *)
Get(v, k) == IF k \in DOMAIN v.o THEN v.o[k] ELSE Null
GetDefault(v, k, default) == IF k \in DOMAIN v.o THEN v.o[k] ELSE default

Digits == {"0", "1", "2", "3", "4", "5", "6", "7", "8", "9"}
DigitVal(c) ==
    CASE c = "0" -> 0 [] c = "1" -> 1 [] c = "2" -> 2 [] c = "3" -> 3 [] c = "4" -> 4
      [] c = "5" -> 5 [] c = "6" -> 6 [] c = "7" -> 7 [] c = "8" -> 8 [] c = "9" -> 9
IsDigit(c) == c \in Digits

RECURSIVE IntVal(_)
IntVal(s) == IF s = <<>> THEN 0 ELSE IntVal(SubSeq(s, 1, Len(s) - 1)) * 10 + DigitVal(s[Len(s)])

RECURSIVE Pow10(_)
Pow10(n) == IF n = 0 THEN 1 ELSE 10 * Pow10(n - 1)

RECURSIVE Strip(_)
Strip(s) ==
    IF s = <<>> THEN s
    ELSE IF s[1] = " " THEN Strip(Tail(s))
    ELSE IF s[Len(s)] = " " THEN Strip(SubSeq(s, 1, Len(s) - 1))
    ELSE s

Raise == [ok |-> FALSE, num |-> 0, den |-> 1]

(* float(str) for strings of digits, sign, point, blank and other characters that
   are not part of an exponent, "inf" or "nan": surrounding blanks are stripped,
   then an optional sign and digits with at most one point and at least one digit *)
ParseFloat(str) ==
    LET s0 == Strip(str)
        signed == s0 # <<>> /\ s0[1] \in {"-", "+"}
        s == IF signed THEN Tail(s0) ELSE s0
        dots == {i \in 1..Len(s) : s[i] = "."}
        ds == SelectSeq(s, IsDigit)
        frac == IF dots = {} THEN 0 ELSE Len(s) - (CHOOSE i \in dots : TRUE)
    IN  IF /\ \A i \in 1..Len(s) : IsDigit(s[i]) \/ s[i] = "."
           /\ Cardinality(dots) <= 1
           /\ ds # <<>>
          THEN [ok |-> TRUE,
                num |-> IF signed /\ s0[1] = "-" THEN 0 - IntVal(ds) ELSE IntVal(ds),
                den |-> Pow10(frac)]
          ELSE Raise

(* float(v): a number is itself, True/False are 1.0/0.0, a string is parsed,
   None, lists and dicts raise TypeError *)
PyFloat(v) ==
    CASE v.t = "num" -> [ok |-> TRUE, num |-> v.num, den |-> v.den]
      [] v.t = "bool" -> [ok |-> TRUE, num |-> IF v.b THEN 1 ELSE 0, den |-> 1]
      [] v.t = "str" -> ParseFloat(v.s)
      [] OTHER -> Raise

(* the float a successful conversion produced *)
Val(f) == [num |-> f.num, den |-> f.den]

(* comparison of two floats *)
FloatEq(x, y) == x.num * y.den = y.num * x.den
FloatLe(x, y) == x.num * y.den <= y.num * x.den

----------------------------------------------------------------------------
(* The adapters: _parse_nominatim and parse_route. An adapter's outcome is the
   sequence of callback invocations it makes. *)

OnErr(msg) == <<[cb |-> "on_err", msg |-> msg]>>
GeoOk(dlat, dlon) == <<[cb |-> "on_ok", lat |-> dlat, lon |-> dlon]>>
RouteOk(path, distance_m, duration_s) ==
    <<[cb |-> "on_ok", path |-> path, distance |-> distance_m, duration |-> duration_s]>>

(* _parse_nominatim, lines 146-161; first says that the element read is arr[0] *)
parse_nominatim_at(j, first) ==
    LET arr == IF j.t = "arr" THEN j.a ELSE <<>>
    IN  IF arr = <<>>
          THEN OnErr("Destination not found.")
          ELSE LET e == IF first THEN arr[1] ELSE arr[Len(arr)]
                   \* arr[0]["lat"]: TypeError unless a dict, KeyError without the key
                   has(k) == e.t = "obj" /\ k \in DOMAIN e.o
                   dlat == IF has("lat") THEN PyFloat(e.o["lat"]) ELSE Raise
                   dlon == IF has("lon") THEN PyFloat(e.o["lon"]) ELSE Raise
               IN  IF dlat.ok /\ dlon.ok
                     THEN GeoOk(Val(dlat), Val(dlon))
                     ELSE OnErr("Geocoding parse error.")

(* mutant of parse_nominatim: reads the last element of the array *)
parse_nominatim_last(j) == parse_nominatim_at(j, FALSE)

parse_nominatim(j) == parse_nominatim_at(j, TRUE)

(* iteration over a value: a list yields its elements, a string its characters;
   None, numbers and booleans raise TypeError. An object yields its keys; every
   key of the bodies has more than two characters and is no number, so unpacking
   it into lon, lat and converting raises as well. *)
Iterable(v) == v.t \in {"arr", "str"}
Items(v) == IF v.t = "arr" THEN v.a ELSE [i \in 1..Len(v.s) |-> Str(<<v.s[i]>>)]

(* v[0], lines 106: the first element of a list or string, an error otherwise *)
Indexable(v) == v.t \in {"arr", "str"}

(* one "(float(lat), float(lon)) for lon, lat in coords" step, line 110; swap says
   whether the pair is stored as (lat, lon) *)
convert_pair(item, swap) ==
    IF Iterable(item) /\ Len(Items(item)) = 2
      THEN LET lon == PyFloat(Items(item)[1])
               lat == PyFloat(Items(item)[2])
           IN  IF lat.ok /\ lon.ok
                 THEN [ok |-> TRUE,
                       lat |-> IF swap THEN Val(lat) ELSE Val(lon),
                       lon |-> IF swap THEN Val(lon) ELSE Val(lat)]
                 ELSE [ok |-> FALSE, lat |-> Val(Raise), lon |-> Val(Raise)]
      ELSE [ok |-> FALSE, lat |-> Val(Raise), lon |-> Val(Raise)]

(* parse_route, lines 101-116 *)
parse_route_with(j, swap) ==
    IF j.t # "obj" THEN OnErr("Failed to parse route.")   \* js.get: AttributeError
    ELSE
    LET routes == Or(Get(j, "routes"), Arr(<<>>))
    IN  IF ~Truthy(routes) THEN OnErr("No route found.")
        ELSE IF ~Indexable(routes) THEN OnErr("Failed to parse route.")
        ELSE
        LET route == Items(routes)[1]
        IN  IF route.t # "obj" THEN OnErr("Failed to parse route.")
            ELSE
            LET geom == Or(Get(route, "geometry"), Obj(<<>>))
            IN  IF geom.t # "obj" THEN OnErr("Failed to parse route.")
                ELSE
                LET coords == Or(Get(geom, "coordinates"), Arr(<<>>))
                IN  IF ~Iterable(coords) THEN OnErr("Failed to parse route.")
                    ELSE
                    LET its == Items(coords)
                        conv == [i \in 1..Len(its) |-> convert_pair(its[i], swap)]
                        path_latlon == [i \in 1..Len(its) |->
                                          [lat |-> conv[i].lat, lon |-> conv[i].lon]]
                        distance_m == PyFloat(GetDefault(route, "distance", Num(0, 1)))
                        duration_s == PyFloat(GetDefault(route, "duration", Num(0, 1)))
                    IN  IF /\ \A i \in 1..Len(its) : conv[i].ok
                           /\ distance_m.ok
                           /\ duration_s.ok
                          THEN RouteOk(path_latlon, Val(distance_m), Val(duration_s))
                          ELSE OnErr("Failed to parse route.")

(* mutant of parse_route: keeps the provider's axis order *)
parse_route_noswap(j) == parse_route_with(j, FALSE)

parse_route(j) == parse_route_with(j, TRUE)

----------------------------------------------------------------------------
(* The bodies the adapters are applied to *)

MaxHits == 2      \* elements of a geocoder's result array
MaxCoords == 2    \* coordinates of a route's geometry

NoObj == [k \in {} |-> Null]

(* an object with the keys K out of f's *)
Pick(f, K) == Obj([k \in K |-> f[k]])

Tuples(S, n) == UNION {[1..m -> S] : m \in 0..n}

GeoVals ==
    {Num(525, 10), Num(91, 1), Num(0 - 181, 1),
     Str(<<"1", "3", ".", "4">>), Str(<<" ", "-", "9", "1", " ">>), Str(<<"x">>),
     Str(<<"1", ".", "2", ".">>), Null, Bool(TRUE), Arr(<<>>)}

GeoFirsts ==
    {Pick([lat |-> a, lon |-> b], K) : a \in GeoVals, b \in GeoVals, K \in SUBSET {"lat", "lon"}}
    \cup {Num(1, 1), Str(<<"l", "a", "t">>), Arr(<<Num(1, 1), Num(2, 1)>>), Null}

GeoOthers == {Obj([lat |-> Num(1, 1), lon |-> Num(2, 1)]), Obj(NoObj), Null}

GeoBodies ==
    {Arr(<<f>> \o rest) : f \in GeoFirsts, rest \in Tuples(GeoOthers, MaxHits - 1)}
    \cup {Arr(<<>>), Obj(NoObj), Obj([error |-> Str(<<"x">>)]), Null, Num(0, 1), Str(<<"x">>)}

CoordVals == {Num(105, 10), Num(523, 10), Str(<<"-", "9", "1">>), Null}

CoordItems ==
    {Arr(<<a, b>>) : a \in CoordVals, b \in CoordVals}
    \cup {Arr(<<Num(105, 10)>>), Arr(<<Num(105, 10), Num(523, 10), Num(0, 1)>>),
          Str(<<"1", "2">>), Num(105, 10)}

GoodCoords == Arr(<<Arr(<<Num(105, 10), Num(523, 10)>>), Arr(<<Num(106, 10), Num(524, 10)>>)>>)

CoordLists ==
    {Arr(l) : l \in Tuples(CoordItems, MaxCoords)}
    \cup {GoodCoords, Null, Str(<<"1", "2">>), Num(7, 1)}

Geoms ==
    {Obj([coordinates |-> GoodCoords]), Obj(NoObj), Null, Arr(<<>>), Arr(<<Null>>), Str(<<"x">>)}

Amounts == {Num(1200, 1), Num(0 - 5, 1), Str(<<"1", ".", "5">>), Str(<<"x">>), Null}

Routes ==
    {Obj([geometry |-> Obj([coordinates |-> c]), distance |-> Num(1200, 1), duration |-> Num(90, 1)]) :
        c \in CoordLists}
    \cup {Pick([geometry |-> g, distance |-> d, duration |-> u], K) :
            g \in Geoms, d \in Amounts, u \in Amounts,
            K \in SUBSET {"geometry", "distance", "duration"}}
    \cup {Null, Num(1, 1), Str(<<"x">>)}

OtherRoute == Obj([geometry |-> Obj([coordinates |-> Arr(<<>>)]), distance |-> Num(1, 1), duration |-> Num(1, 1)])

RouteBodies ==
    {Obj([routes |-> Arr(<<r>>)]) : r \in Routes}
    \cup {Obj([routes |-> Arr(<<r, OtherRoute>>)]) : r \in {OtherRoute, Null}}
    \cup {Obj([routes |-> v]) : v \in {Arr(<<>>), Null, Num(0, 1), Num(3, 1), Bool(TRUE),
                                        Str(<<"a", "b">>), Obj(NoObj), Obj([code |-> Null])}}
    \cup {Obj(NoObj), Obj([code |-> Str(<<"x">>)]), Arr(<<>>), Null, Str(<<"x">>)}

(* the pipeline at rest, configured as RoutingClient.__init__ is by default *)
PipeIdle ==
    /\ retry_enabled = TRUE /\ retries = MaxRetries
    /\ phase = "Idle" /\ kind = "none"
    /\ timeout_ms = 0 /\ attempts_left = 0 /\ att = <<>> /\ backoff = 0
    /\ calls = 0 /\ okCount = 0 /\ errCount = 0
    /\ last = [via |-> "none", aborts |-> 0, log |-> <<>>, res |-> <<>>, inp |-> <<>>]
    /\ hist = {}

InitAdapter ==
    /\ PipeIdle
    /\ js \in GeoBodies \cup RouteBodies
    /\ result = <<>>
    /\ SimplifyIdle
    /\ IpIdle
    /\ BackendIdle

(* a geocode reply's body reaches _parse_nominatim (on_ok of geocode_async) *)
GeocodeBody ==
    /\ kind = "none"
    /\ kind' = "geocode"
    /\ result' = parse_nominatim(js)
    /\ UNCHANGED <<retry_enabled, retries, phase, timeout_ms, attempts_left, att, backoff,
                   calls, okCount, errCount, last, hist, js, simplifyVars, ipVars,
                   backendVars>>

(* a route reply's body reaches parse_route (on_ok of route_async) *)
RouteBody ==
    /\ kind = "none"
    /\ kind' = "route"
    /\ result' = parse_route(js)
    /\ UNCHANGED <<retry_enabled, retries, phase, timeout_ms, attempts_left, att, backoff,
                   calls, okCount, errCount, last, hist, js, simplifyVars, ipVars,
                   backendVars>>

NextAdapter == GeocodeBody \/ RouteBody

AdapterSpec == InitAdapter /\ [][NextAdapter]_vars

----------------------------------------------------------------------------
(* Claims about the adapters *)

F(n, d) == [num |-> n, den |-> d]

LatInRange(x) == FloatLe(F(0 - 90, 1), x) /\ FloatLe(x, F(90, 1))
LonInRange(x) == FloatLe(F(0 - 180, 1), x) /\ FloatLe(x, F(180, 1))

(* the adapter reported success *)
Succeeded == result # <<>> /\ result[1].cb = "on_ok"

(* C12: no adapter reports as a success a coordinate outside latitude [-90, 90]
   or longitude [-180, 180]. *)
C12_CoordinatesInRange ==
    /\ (kind = "geocode" /\ Succeeded)
          => LatInRange(result[1].lat) /\ LonInRange(result[1].lon)
    /\ (kind = "route" /\ Succeeded)
          => \A i \in 1..Len(result[1].path) :
                LatInRange(result[1].path[i].lat) /\ LonInRange(result[1].path[i].lon)

(* the key k of object e holds something float() converts *)
Parseable(e, k) == e.t = "obj" /\ k \in DOMAIN e.o /\ PyFloat(e.o[k]).ok

(* C13: the geocode adapter gives every body exactly one result: 'Destination not
   found.' for an empty array or a non-array, success with the first element's
   (lat, lon) when both are parseable, whatever follows it, and 'Geocoding parse
   error.' when the first element's lat or lon is missing or unparsable. *)
C13_GeocodeMapping ==
    kind = "geocode" =>
        /\ Len(result) = 1
        /\ IF js.t # "arr" \/ js.a = <<>>
             THEN result = OnErr("Destination not found.")
             ELSE IF Parseable(js.a[1], "lat") /\ Parseable(js.a[1], "lon")
                    THEN /\ result[1].cb = "on_ok"
                         /\ FloatEq(result[1].lat, PyFloat(js.a[1].o["lat"]))
                         /\ FloatEq(result[1].lon, PyFloat(js.a[1].o["lon"]))
                    ELSE result = OnErr("Geocoding parse error.")

(* a two-element array whose first element reads lat "13.4", lon 52.5 and whose
   second element has other coordinates gave (13.4, 52.5) *)
C13_Witness ==
    /\ kind = "geocode"
    /\ js = Arr(<<Obj([lat |-> Str(<<"1", "3", ".", "4">>), lon |-> Num(525, 10)]),
                  Obj([lat |-> Num(1, 1), lon |-> Num(2, 1)])>>)
    /\ result = GeoOk(F(134, 10), F(525, 10))

(* C14: a route success carries a path of at least 2 coordinates and a distance
   and a duration that are both >= 0. *)
C14_RouteResultWellFormed ==
    (kind = "route" /\ Succeeded) =>
        /\ Len(result[1].path) >= 2
        /\ FloatLe(F(0, 1), result[1].distance)
        /\ FloatLe(F(0, 1), result[1].duration)

(* routes[0] of a body whose routes is a non-empty array *)
HasRoute == js.t = "obj" /\ "routes" \in DOMAIN js.o /\ js.o["routes"].t = "arr"
            /\ js.o["routes"].a # <<>>
Route0 == js.o["routes"].a[1]

(* the item is a [lon, lat] pair *)
IsPair(item) == item.t = "arr" /\ Len(item.a) = 2 /\ PyFloat(item.a[1]).ok /\ PyFloat(item.a[2]).ok

(* routes[0] has geometry.coordinates, distance and duration, and the coordinates
   are a list of [lon, lat] pairs *)
WellFormedRoute(r) ==
    /\ r.t = "obj"
    /\ {"geometry", "distance", "duration"} \subseteq DOMAIN r.o
    /\ r.o["geometry"].t = "obj"
    /\ "coordinates" \in DOMAIN r.o["geometry"].o
    /\ r.o["geometry"].o["coordinates"].t = "arr"
    /\ \A i \in 1..Len(r.o["geometry"].o["coordinates"].a) :
          IsPair(r.o["geometry"].o["coordinates"].a[i])

(* C15: the route adapter turns every structurally wrong body into an error:
   empty or absent routes gives 'No route found.', a routes[0] without geometry,
   geometry.coordinates, distance or duration, or with coordinates that are not
   [lon, lat] pairs, gives 'Failed to parse route.'. *)
C15_StructuralMismatchIsError ==
    kind = "route" =>
        /\ (js.t = "obj" /\ ("routes" \notin DOMAIN js.o \/ js.o["routes"] = Arr(<<>>)))
              => result = OnErr("No route found.")
        /\ (HasRoute /\ ~WellFormedRoute(Route0))
              => result = OnErr("Failed to parse route.")

(* C16: the parsed path of a provider coordinate list [[lon_1, lat_1], ...,
   [lon_n, lat_n]] is [(lat_1, lon_1), ..., (lat_n, lon_n)]: same length, same
   order, each pair axis-swapped. *)
C16_AxisSwap ==
    (/\ kind = "route" /\ HasRoute /\ WellFormedRoute(Route0)
     /\ Parseable(Route0, "distance") /\ Parseable(Route0, "duration")) =>
        LET c == Route0.o["geometry"].o["coordinates"].a
        IN  /\ Succeeded
            /\ Len(result[1].path) = Len(c)
            /\ \A i \in 1..Len(c) :
                  /\ FloatEq(result[1].path[i].lat, PyFloat(c[i].a[2]))
                  /\ FloatEq(result[1].path[i].lon, PyFloat(c[i].a[1]))

(* coordinates [[10.5, 52.3], [10.6, 52.4]] were parsed to [(52.3, 10.5), (52.4, 10.6)] *)
C16_Witness ==
    /\ kind = "route" /\ HasRoute /\ WellFormedRoute(Route0)
    /\ Route0.o["geometry"].o["coordinates"] = GoodCoords
    /\ Succeeded
    /\ result[1].path = <<[lat |-> F(523, 10), lon |-> F(105, 10)],
                          [lat |-> F(524, 10), lon |-> F(106, 10)]>>

----------------------------------------------------------------------------
(* The IP lookup: Backend._fallback_ip_async (backend.py) calls json_get_async
   once per provider; each call is a request of its own in the pipeline, with its
   own attempts and backoff timers. attempts_left of these requests is written
   and never read, and is not kept here. *)

(* endpoints, lines 312-315: the latitude and longitude field names per provider *)
endpoints == <<(<<"latitude", "longitude">>), (<<"lat", "lon">>)>>

(* json_get_async, line 136: timeout_ms or self._geocode_timeout *)
geocode_timeout == 10000

(* what a provider's reply holds: raw text that json.loads rejects, an empty body
   (read as "{}"), or a JSON document *)
IpBodies ==
    {[raw |-> "notjson", js |-> Null], [raw |-> "empty", js |-> Obj(NoObj)]}
    \cup {[raw |-> "json", js |-> v] : v \in
            {Obj([foo |-> Num(1, 1)]),
             Obj([latitude |-> Num(48, 1), longitude |-> Str(<<"1", "1", ".", "5">>)]),
             Obj([lat |-> Num(10, 1), lon |-> Num(20, 1)]),
             Obj([lat |-> Num(30, 1), lon |-> Str(<<"x">>)]),
             Obj([latitude |-> Null, longitude |-> Num(20, 1)]),
             Arr(<<>>)}}

(* the state a handler's continuations update in turn; started lists the
   providers a request was started for *)
IpMem == [idx |-> idx, latitude |-> latitude, longitude |-> longitude,
          statusText |-> statusText, armed |-> armed, started |-> <<>>,
          hist |-> hist, log |-> <<>>]

(* try_next, lines 319-347 up to the call of json_get_async *)
try_next(m) ==
    IF m.idx >= Len(endpoints)
      THEN [m EXCEPT !.statusText = "Could not determine location.",
                     !.hist = @ \cup {<<"exhausted", 0>>}]
      ELSE [m EXCEPT !.idx = @ + 1,
                     !.started = Append(@, m.idx + 1),
                     !.hist = @ \cup {<<"requested", m.idx + 1>>}]

(* ok_cb, lines 328-341, of provider p. js.get raises AttributeError when the
   body is no object: the exception leaves the slot and nothing else happens.
   _set_latitude runs before float(lon) is attempted. *)
ok_cb(m, p, j) ==
    IF j.t # "obj" THEN [m EXCEPT !.log = Append(@, "raised")]
    ELSE
    LET lat == Get(j, endpoints[p][1])
        lon == Get(j, endpoints[p][2])
        ended == [m EXCEPT !.hist = @ \cup {<<"ended", p>>}]
    IN  IF lat # Null /\ lon # Null
          THEN IF ~PyFloat(lat).ok THEN try_next(ended)
               ELSE IF ~PyFloat(lon).ok
                      THEN try_next([ended EXCEPT !.latitude = Val(PyFloat(lat))])
               ELSE [m EXCEPT !.latitude = Val(PyFloat(lat)),
                              !.longitude = Val(PyFloat(lon)),
                              !.statusText = "Got approximate location from IP.",
                              !.hist = @ \cup {<<"coords", p>>}]
          ELSE try_next(ended)

(* err_cb, lines 343-345 *)
err_cb(m, p) == try_next([m EXCEPT !.hist = @ \cup {<<"ended", p>>}])

(* _maybe_retry, lines 189-210, with retry_fn and final_err of provider p's request *)
ip_maybe_retry(m, p, msg, st) ==
    IF transient(st) /\ retry_enabled
      THEN [m EXCEPT !.armed[p] = @ + 1]
      ELSE err_cb(m, p)

(* finish, lines 240-269, for an attempt of provider p's request *)
ip_finish(m, p, err, st, b) ==
    LET o == FinishOutcome(err, st, b.raw)
    IN  IF o.cont = "on_ok" THEN ok_cb(m, p, b.js)
        ELSE ip_maybe_retry(m, p, o.msg, o.status)

(* attempt() of provider p's request: a new reply with its timeout timer *)
ip_attempt(p) == [req |-> p] @@ single_json_get(geocode_timeout)

(* writes a handler's memory back and starts the attempts it asked for, on top
   of the attempts rest that stay unresolved *)
IpCommit(m, rest) ==
    /\ Len(rest) + Len(m.started) + m.armed[1] + m.armed[2] <= MaxLive
    /\ idx' = m.idx
    /\ latitude' = m.latitude
    /\ longitude' = m.longitude
    /\ statusText' = m.statusText
    /\ armed' = m.armed
    /\ hist' = m.hist
    /\ att' = rest \o [i \in 1..Len(m.started) |-> ip_attempt(m.started[i])]
    /\ calls' = IF calls + Len(m.started) < MaxCalls THEN calls + Len(m.started)
                                                      ELSE MaxCalls

(* locate() without a system provider, or its fallback: _fallback_ip_async,
   lines 305-349: idx = 0 and the first try_next() *)
FallbackIp ==
    /\ phase = "Idle"
    /\ phase' = "Issued"
    /\ kind' = "json"
    /\ timeout_ms' = geocode_timeout
    /\ IpCommit(try_next([IpMem EXCEPT !.idx = 0]), att)
    /\ last' = [via |-> "call", req |-> 0, log |-> <<>>, inp |-> <<>>]
    /\ UNCHANGED <<retry_enabled, retries, attempts_left, backoff, okCount, errCount,
                   adapterVars, simplifyVars, backendVars>>

(* the reply of attempt a ends by itself and emits finished() *)
IpTransportFinish(a, err, st, b) ==
    /\ Running(a)
    /\ att[a].connected
    /\ err # "NoError" => b.raw = "empty"
    /\ ~(200 <= st /\ st < 300) => b.raw # "json"   \* only a 2xx body reaches ok_cb
    /\ err = "ConnectionRefusedError" => st = NoStatus
    /\ err = "NoError" => st # NoStatus
    /\ LET m == ip_finish(IpMem, att[a].req, err, st, b)
       IN  /\ IpCommit(m, Drop(a))
           /\ last' = [via |-> "finish", req |-> att[a].req, log |-> m.log,
                       inp |-> <<[err |-> err, status |-> st, body |-> b]>>]
    /\ UNCHANGED <<retry_enabled, retries, phase, kind, timeout_ms, attempts_left, backoff,
                   okCount, errCount, adapterVars, simplifyVars, backendVars>>

(* the timeout timer of attempt a fires: on_timeout aborts the running reply,
   whose finished() runs finish at once, and then reports the timeout itself *)
IpTimerFire(a, hs) ==
    /\ att[a].timer = "active"
    /\ LET p == att[a].req
           m1 == IF Running(a) /\ att[a].connected
                   THEN ip_finish(IpMem, p, "OperationCanceledError", hs,
                                  [raw |-> "empty", js |-> Obj(NoObj)])
                   ELSE IpMem
           m2 == ip_maybe_retry(m1, p, "Request timed out.", NoStatus)
       IN  /\ IpCommit(m2, Drop(a))
           /\ last' = [via |-> "timeout", req |-> p, log |-> m2.log,
                       inp |-> <<[err |-> "OperationCanceledError", status |-> hs,
                                  body |-> [raw |-> "empty", js |-> Obj(NoObj)]]>>]
    /\ UNCHANGED <<retry_enabled, retries, phase, kind, timeout_ms, attempts_left, backoff,
                   okCount, errCount, adapterVars, simplifyVars, backendVars>>

(* a backoff timer of provider p's request fires: fire, then attempt() *)
IpBackoffFire(p) ==
    /\ armed[p] > 0
    /\ Len(att) < MaxLive
    /\ armed' = [armed EXCEPT ![p] = @ - 1]
    /\ att' = Append(att, ip_attempt(p))
    /\ calls' = Inc(calls, MaxCalls)
    /\ UNCHANGED <<retry_enabled, retries, phase, kind, timeout_ms, attempts_left, backoff,
                   okCount, errCount, last, hist, adapterVars, simplifyVars,
                   idx, latitude, longitude, statusText, backendVars>>

IpReply ==
    \E a \in Live, err \in NetErrors, st \in StatusSet, b \in IpBodies :
        IpTransportFinish(a, err, st, b)

IpTimeout == \E a \in Live, hs \in StatusSet : IpTimerFire(a, hs)

IpBackoff == \E p \in {q \in 1..Len(endpoints) : armed[q] > 0} : IpBackoffFire(p)

NextIp == FallbackIp \/ IpReply \/ IpTimeout \/ IpBackoff

InitIp ==
    /\ retry_enabled \in BOOLEAN /\ retries = MaxRetries
    /\ phase = "Idle" /\ kind = "none"
    /\ timeout_ms = 0 /\ attempts_left = 0 /\ att = <<>> /\ backoff = 0
    /\ calls = 0 /\ okCount = 0 /\ errCount = 0
    /\ last = [via |-> "none", req |-> 0, log |-> <<>>, inp |-> <<>>]
    /\ hist = {}
    /\ AdapterIdle /\ SimplifyIdle /\ IpIdle /\ BackendIdle

IpSpec == InitIp /\ [][NextIp]_vars

----------------------------------------------------------------------------
(* Claims about the IP lookup *)

(* attempts in flight and backoff timers armed, over all providers *)
Outstanding == Len(att) + armed[1] + armed[2]

(* body b holds two parseable coordinates under provider p's field names *)
TwoCoordinates(p, b) ==
    /\ b.raw # "notjson"
    /\ b.js.t = "obj"
    /\ Parseable(b.js, endpoints[p][1])
    /\ Parseable(b.js, endpoints[p][2])

(* the most recent resolution is a 2xx reply of a provider, decoded by json.loads *)
IpAnswered ==
    /\ last.via = "finish"
    /\ last.inp[1].err = "NoError"
    /\ 200 <= last.inp[1].status /\ last.inp[1].status < 300
    /\ last.inp[1].body.raw # "notjson"

IpOneAtATime == Outstanding <= 1

IpInOrder ==
    /\ <<"requested", 2>> \in hist => <<"ended", 1>> \in hist
    /\ \A p \in 1..Len(endpoints) :
          <<"coords", p>> \in hist =>
              /\ Outstanding = 0
              /\ \A q \in (p + 1)..Len(endpoints) : <<"requested", q>> \notin hist

IpProceeds ==
    (IpAnswered /\ ~TwoCoordinates(last.req, last.inp[1].body)) =>
        \/ <<"requested", last.req + 1>> \in hist
        \/ last.req = Len(endpoints) /\ <<"exhausted", 0>> \in hist

IpReturnsThose ==
    (IpAnswered /\ TwoCoordinates(last.req, last.inp[1].body)) =>
        /\ FloatEq(latitude, PyFloat(Get(last.inp[1].body.js, endpoints[last.req][1])))
        /\ FloatEq(longitude, PyFloat(Get(last.inp[1].body.js, endpoints[last.req][2])))
        /\ statusText = "Got approximate location from IP."

IpExhausted ==
    <<"exhausted", 0>> \in hist =>
        /\ statusText = "Could not determine location."
        /\ Outstanding = 0

(* C17: the IP lookup visits the providers in list order, one at a time: provider
   k+1 is requested only after provider k has ended without two parseable
   coordinates, and it is requested then; the lookup stops at the first provider
   that yields two parseable coordinates and returns exactly those; when all
   providers are exhausted the result is 'Could not determine location.'. *)
C17_SequentialFallback ==
    /\ IpOneAtATime
    /\ IpInOrder
    /\ IpProceeds
    /\ IpReturnsThose
    /\ IpExhausted

----------------------------------------------------------------------------
(* The path simplifier of routeTo (backend.py): _perp_dist and
   simplify_path_latlon. Points are pairs of integers and distances are compared
   exactly, through their squares; Python's 0-based indices are kept. *)

MaxPts == 4     \* longest point sequence simplified

Pts == {<<0, 0>>, <<1, 1>>, <<2, 2>>, <<5, 5>>, <<1, 3>>, <<3, 0>>}
Tols == {0 - 1, 0, 1}

(* points[i] *)
At(pts, i) == pts[i + 1]

(* points[:k] and points[k:] with Python's reading of a negative k *)
SliceTo(pts, k) ==
    LET e == IF k < 0 THEN Max(Len(pts) + k, 0) ELSE IF k > Len(pts) THEN Len(pts) ELSE k
    IN  SubSeq(pts, 1, e)
SliceFrom(pts, k) ==
    LET b == IF k < 0 THEN Max(Len(pts) + k, 0) ELSE IF k > Len(pts) THEN Len(pts) ELSE k
    IN  SubSeq(pts, b + 1, Len(pts))

Sq(n) == n * n

(* _perp_dist, lines 197-208: the square of the distance from pt to the segment
   a-b, as a fraction; t = tn/l2 is clamped to [0, 1] *)
perp_dist2(pt, a, b) ==
    LET x == pt[1]  y == pt[2]
        x1 == a[1]  y1 == a[2]
        x2 == b[1]  y2 == b[2]
        dx == x2 - x1
        dy == y2 - y1
        tn == (x - x1) * dx + (y - y1) * dy
        l2 == dx * dx + dy * dy
    IN  IF dx = 0 /\ dy = 0 THEN [num |-> Sq(x - x1) + Sq(y - y1), den |-> 1]
        ELSE IF tn <= 0 THEN [num |-> Sq(x - x1) + Sq(y - y1), den |-> 1]
        ELSE IF tn >= l2 THEN [num |-> Sq(x - x2) + Sq(y - y2), den |-> 1]
        ELSE [num |-> Sq((x - x1) * l2 - tn * dx) + Sq((y - y1) * l2 - tn * dy),
              den |-> Sq(l2)]

(* d > d_max for two distances given by their squares *)
Farther(d2, dmax2) == d2.num * dmax2.den > dmax2.num * d2.den

(* mutant of Exceeds: the distance is compared with twice the tolerance *)
exceeds_double(dmax2, tol) == tol < 0 \/ dmax2.num > Sq(2 * tol) * dmax2.den

(* d_max > tol_deg for a distance given by its square and an integer tolerance *)
Exceeds(dmax2, tol) == tol < 0 \/ dmax2.num > Sq(tol) * dmax2.den

(* the loop of lines 218-221 from index i on *)
RECURSIVE scan(_, _, _, _)
scan(pts, i, idx_max, d_max2) ==
    IF i > Len(pts) - 2 THEN [idx_max |-> idx_max, d_max2 |-> d_max2]
    ELSE LET d2 == perp_dist2(At(pts, i), At(pts, 0), At(pts, Len(pts) - 1))
         IN  IF Farther(d2, d_max2) THEN scan(pts, i + 1, i, d2)
             ELSE scan(pts, i + 1, idx_max, d_max2)

(* simplify_path_latlon, lines 210-227; share says whether the split point is
   dropped from the left part (left[:-1]) *)
RECURSIVE simplify_with(_, _, _)
simplify_with(pts, tol, share) ==
    IF Len(pts) <= 2 THEN pts
    ELSE LET m == scan(pts, 1, 0 - 1, [num |-> 0, den |-> 1])
         IN  IF Exceeds(m.d_max2, tol)
               THEN LET left == simplify_with(SliceTo(pts, m.idx_max + 1), tol, share)
                        right == simplify_with(SliceFrom(pts, m.idx_max), tol, share)
                    IN  (IF share THEN SliceTo(left, 0 - 1) ELSE left) \o right
               ELSE <<At(pts, 0), At(pts, Len(pts) - 1)>>

(* mutant of simplify_path_latlon: a pair of equal points is collapsed to one *)
simplify_dedup(pts, tol) ==
    IF Len(pts) = 2 /\ pts[1] = pts[2] THEN <<pts[1]>> ELSE simplify_with(pts, tol, TRUE)

(* mutant of simplify_path_latlon: left + right, the split point emitted twice *)
simplify_twice(pts, tol) == simplify_with(pts, tol, FALSE)

simplify_path_latlon(pts, tol) == simplify_with(pts, tol, TRUE)

InitSimplify ==
    /\ PipeIdle
    /\ AdapterIdle
    /\ IpIdle
    /\ BackendIdle
    /\ points \in Tuples(Pts, MaxPts)
    /\ tol_deg \in Tols
    /\ simp = <<>>

(* route_ok, line 241: simp = simplify_path_latlon(path_latlon, tol_deg=tol) *)
Simplify ==
    /\ simp = <<>>
    /\ simp' = <<simplify_path_latlon(points, tol_deg)>>
    /\ UNCHANGED <<pipe, adapterVars, ipVars, backendVars, points, tol_deg>>

NextSimplify == Simplify

SimplifySpec == InitSimplify /\ [][NextSimplify]_vars

----------------------------------------------------------------------------
(* Claims about the path simplifier *)

(* simplify_path_latlon has returned *)
Simplified == simp # <<>>

(* C18: for every non-empty point sequence and every tolerance, zero and negative
   ones included, the simplified path starts with the input's first point and
   ends with its last point. *)
C18_EndpointsPreserved ==
    (Simplified /\ points # <<>>) =>
        /\ simp[1] # <<>>
        /\ simp[1][1] = points[1]
        /\ simp[1][Len(simp[1])] = points[Len(points)]

(* a, b and c lie on one straight line *)
OnOneLine(a, b, c) == (b[1] - a[1]) * (c[2] - a[2]) = (b[2] - a[2]) * (c[1] - a[1])

Collinear(pts) ==
    \A i \in 1..Len(pts), j \in 1..Len(pts), k \in 1..Len(pts) :
        OnOneLine(pts[i], pts[j], pts[k])

(* C19: three or more points on one straight line, in any order along it, are
   simplified with tolerance 0 to exactly [first, last]. *)
C19_CollinearCollapses ==
    (Simplified /\ tol_deg = 0 /\ Len(points) >= 3 /\ Collinear(points)) =>
        simp[1] = <<points[1], points[Len(points)]>>

(* s can be read off t from left to right, each position of t used at most once *)
RECURSIVE IsSubseq(_, _)
IsSubseq(s, t) ==
    IF s = <<>> THEN TRUE
    ELSE IF t = <<>> THEN FALSE
    ELSE IF Head(s) = Head(t) THEN IsSubseq(Tail(s), Tail(t))
    ELSE IsSubseq(s, Tail(t))

(* C20: the simplified path is a subsequence of the input: its points are input
   points at strictly increasing positions, the split point appearing once, so it
   is no longer than the input. *)
C20_Subsequence ==
    Simplified =>
        /\ IsSubseq(simp[1], points)
        /\ Len(simp[1]) <= Len(points)

(* four points were split at an inner point that is kept, and another inner
   point was dropped *)
C20_Witness ==
    /\ Simplified
    /\ tol_deg = 0
    /\ points = <<(<<0, 0>>), (<<1, 1>>), (<<2, 2>>), (<<3, 0>>)>>
    /\ simp[1] = <<(<<0, 0>>), (<<2, 2>>), (<<3, 0>>)>>

(* C21: a point sequence of length 0, 1 or 2 is returned as it is, whatever the
   tolerance. *)
C21_ShortUnchanged ==
    (Simplified /\ Len(points) <= 2) => simp[1] = points

(* a pair of equal points came back as that pair under a negative tolerance *)
C21_Witness ==
    /\ Simplified
    /\ tol_deg < 0
    /\ points = <<(<<1, 1>>), (<<1, 1>>)>>
    /\ simp[1] = points

----------------------------------------------------------------------------
(* Backend.routeTo (backend.py): the handlers geo_ok, geo_err, route_ok and
   route_err. Route coordinates and tolerances are in units of 1e-5 degree, so
   that 0.00005, 0.0001 and 0.0002 are 5, 10 and 20; distances are floats. *)

FloatLt(x, y) == ~FloatLe(y, x)

(* mutant of route_tol: the boundaries fall in the smaller-tolerance band *)
route_tol_le(distance_m) ==
    IF FloatLe(distance_m, F(50000, 1)) THEN 5
    ELSE IF FloatLe(distance_m, F(300000, 1)) THEN 10
    ELSE 20

(* route_ok, line 240: tol = 0.00005 if distance_m < 50_000 else
   (0.0001 if distance_m < 300_000 else 0.0002) *)
route_tol(distance_m) ==
    IF FloatLt(distance_m, F(50000, 1)) THEN 5
    ELSE IF FloatLt(distance_m, F(300000, 1)) THEN 10
    ELSE 20

(* the state the handlers of one event update in turn; started lists the
   requests issued, log the handlers that ran *)
BMem == [statusText |-> statusText, isBusy |-> isBusy, route_points |-> route_points,
         route_distance_m |-> route_distance_m, route_duration_s |-> route_duration_s,
         points |-> points, tol_deg |-> tol_deg, simp |-> simp,
         okCount |-> okCount, errCount |-> errCount,
         armed |-> armed, started |-> <<>>, log |-> <<>>]

(* route_ok, lines 234-253 *)
route_ok(m, path_latlon, distance_m, duration_s) ==
    LET tol == route_tol(distance_m)
        sp == simplify_path_latlon(path_latlon, tol)
    IN  [m EXCEPT !.points = path_latlon, !.tol_deg = tol, !.simp = <<sp>>,
                  !.route_points = sp,
                  !.route_distance_m = distance_m,
                  !.route_duration_s = duration_s,
                  !.statusText = "Route ready.",
                  !.isBusy = FALSE,
                  !.okCount = Inc(@, MaxCb),
                  !.log = Append(@, "route_ok")]

(* route_err, lines 256-259 *)
route_err(m, msg) ==
    [m EXCEPT !.statusText = msg, !.isBusy = FALSE,
              !.errCount = Inc(@, MaxCb), !.log = Append(@, "route_err")]

(* geo_err, lines 229-232 *)
geo_err(m, msg) ==
    [m EXCEPT !.statusText = msg, !.isBusy = FALSE,
              !.errCount = Inc(@, MaxCb), !.log = Append(@, "geo_err")]

(* mutant of geo_ok: a route point is stored before the route is known *)
geo_ok_stores(m) ==
    [m EXCEPT !.statusText = "Requesting route...",
              !.route_points = <<(<<0, 0>>)>>,
              !.started = Append(@, 2),
              !.log = Append(@, "geo_ok")]

(* geo_ok, lines 184-195: the status and the call of route_async *)
geo_ok(m) ==
    [m EXCEPT !.statusText = "Requesting route...",
              !.started = Append(@, 2),
              !.log = Append(@, "geo_ok")]

(* writes the handlers' memory back to the Backend's fields *)
BackendCommit(m) ==
    /\ statusText' = m.statusText
    /\ isBusy' = m.isBusy
    /\ route_points' = m.route_points
    /\ route_distance_m' = m.route_distance_m
    /\ route_duration_s' = m.route_duration_s
    /\ points' = m.points
    /\ tol_deg' = m.tol_deg
    /\ simp' = m.simp
    /\ okCount' = m.okCount
    /\ errCount' = m.errCount

----------------------------------------------------------------------------
(* The tolerance chosen by route_ok, over distances around the band limits *)

Margin == 10    \* metres on either side of a band limit

RoutePaths ==
    {<<>>,
     <<(<<0, 0>>), (<<1, 1>>)>>,
     <<(<<0, 0>>), (<<1, 3>>), (<<5, 5>>)>>,
     <<(<<0, 0>>), (<<1, 1>>), (<<2, 2>>), (<<3, 0>>)>>}

Distances ==
    {F(n, 1) : n \in (50000 - Margin)..(50000 + Margin)}
    \cup {F(n, 1) : n \in (300000 - Margin)..(300000 + Margin)}
    \cup {F(12000, 1), F(0, 1), F(0 - 5, 1), F(99999, 2), F(599999, 2)}

InitTol ==
    /\ PipeIdle /\ SimplifyIdle /\ IpIdle
    /\ js = <<>>
    /\ result \in {RouteOk(pth, d, F(90, 1)) : pth \in RoutePaths, d \in Distances}
    /\ isBusy = TRUE
    /\ route_points = <<>> /\ route_distance_m = F(0, 1) /\ route_duration_s = F(0, 1)
    /\ destination_text = <<"B">> /\ geo_src = "None" /\ geo_timeout = "None"

(* parse_route's on_ok(path_latlon, distance_m, duration_s) reaches route_ok *)
RouteOkCall ==
    /\ simp = <<>>
    /\ BackendCommit(route_ok(BMem, result[1].path, result[1].distance, result[1].duration))
    /\ UNCHANGED <<retry_enabled, retries, phase, kind, timeout_ms, attempts_left, att,
                   backoff, calls, last, hist, adapterVars, idx, latitude, longitude,
                   armed, destination_text, geo_src, geo_timeout>>

NextTol == RouteOkCall

TolSpec == InitTol /\ [][NextTol]_vars

(* C22: the tolerance chosen for a route depends only on its distance d in
   metres: 0.00005 for d < 50000, 0.0001 for 50000 <= d < 300000, 0.0002 for
   d >= 300000. *)
C22_ToleranceBands ==
    Simplified =>
        LET d == result[1].distance
        IN  /\ FloatLt(d, F(50000, 1)) => tol_deg = 5
            /\ (FloatLe(F(50000, 1), d) /\ FloatLt(d, F(300000, 1))) => tol_deg = 10
            /\ FloatLe(F(300000, 1), d) => tol_deg = 20

(* a route of exactly 50000 m was simplified with 0.0001 *)
C22_Witness ==
    /\ Simplified
    /\ result[1].distance = F(50000, 1)
    /\ tol_deg = 10
    /\ route_distance_m = F(50000, 1)

----------------------------------------------------------------------------
(* the elements of a set of numbers in increasing order *)
RECURSIVE Ascending(_)
Ascending(S) ==
    IF S = {} THEN <<>>
    ELSE LET lo == CHOOSE x \in S : \A y \in S : x <= y
         IN  <<lo>> \o Ascending(S \ {lo})

(* a distance, given by its square, is at most the tolerance tol >= 0 *)
Within(d2, tol) == d2.num <= Sq(tol) * d2.den

(* pos lists input positions of the output's points, from the first to the last
   input point, and every input point between two consecutive ones is within
   tol of the segment that joins them *)
Covers(pos, out, pts, tol) ==
    /\ Len(pos) = Len(out)
    /\ pos[1] = 1 /\ pos[Len(pos)] = Len(pts)
    /\ \A k \in 1..Len(out) : pts[pos[k]] = out[k]
    /\ \A k \in 1..(Len(out) - 1) :
          \A i \in (pos[k] + 1)..(pos[k + 1] - 1) :
              Within(perp_dist2(pts[i], out[k], out[k + 1]), tol)

(* C24: for a tolerance >= 0 every input point that simplify drops lies within
   the tolerance of the segment joining the two output points, taken at their
   input positions, between which it was dropped. *)
C24_DroppedWithinTolerance ==
    (Simplified /\ tol_deg >= 0 /\ Len(points) >= 2) =>
        \E S \in SUBSET (1..Len(points)) : Covers(Ascending(S), simp[1], points, tol_deg)

(* (1,1) was dropped between (0,0) and (2,2) while (2,2) was kept *)
C24_Witness ==
    /\ Simplified
    /\ tol_deg = 1
    /\ points = <<(<<0, 0>>), (<<1, 1>>), (<<2, 2>>), (<<3, 0>>)>>
    /\ simp[1] = <<(<<0, 0>>), (<<2, 2>>), (<<3, 0>>)>>

----------------------------------------------------------------------------
(* the attempt resolved by the last step left with its timeout timer and its
   reply released and finish disconnected (cleanup, lines 271-281) *)
ResolvedReleased ==
    Resolved => \A i \in 1..Len(last.res) :
                    /\ last.res[i].timer = "deleted"
                    /\ last.res[i].reply = "deleted"
                    /\ ~last.res[i].connected

(* nothing of a terminal request is live: no attempt with its timeout timer and
   reply, no backoff timer *)
TerminalQuiet == Terminal => (Len(att) = 0 /\ backoff = 0)

(* C23: no timer or transport handle outlives the state that created it: a
   resolved attempt's timeout timer and reply are released, and once the
   logical request is terminal no timeout timer, backoff timer or reply that
   belongs to it is live or can still fire. *)
C23_NoHandleOutlives == ResolvedReleased /\ TerminalQuiet

----------------------------------------------------------------------------
(* C26: one IP reply updates latitude and longitude atomically: both are
   replaced by the parsed values when both fields parse, and both stay
   unchanged when either field is absent or unparsable; the stored position
   never mixes a new latitude with an old longitude. *)
C26_PositionAtomic ==
    [][IF IpAnswered' /\ TwoCoordinates(last'.req, last'.inp[1].body)
         THEN /\ FloatEq(latitude', PyFloat(Get(last'.inp[1].body.js, endpoints[last'.req][1])))
              /\ FloatEq(longitude', PyFloat(Get(last'.inp[1].body.js, endpoints[last'.req][2])))
         ELSE latitude' = latitude /\ longitude' = longitude]_vars

----------------------------------------------------------------------------
(* Backend.locate (backend.py 117-157) with the system position source, its
   timeout timer (275-302) and the IP lookup (305-349). geo_src is "None" or
   "active" (connected, update requested); geo_timeout is "None", "active" or
   "expired" (fire does not reset the field). hist also keeps the locate()
   calls made and <<"system", 0>> while the position is the one the system
   source gave to the latest locate(). One IP lookup is followed per
   behaviour. *)

MaxLocates == 2

(* what the system position source can report *)
SysPositions == {[lat |-> F(50, 1), lon |-> F(8, 1)]}

Locates(h) == Cardinality({e \in h : e[1] = "locate"})

(* hist at a locate() that is not ignored *)
Located(h) == (h \ {<<"system", 0>>}) \cup {<<"locate", Locates(h) + 1>>}

(* _fallback_ip_async, lines 305-349, after the status was set to msg *)
fallback_ip_async(m, msg) == try_next([m EXCEPT !.idx = 0, !.statusText = msg])

(* locate(), lines 117-157; available: createDefaultSource returns a source *)
Locate(available) ==
    /\ ~isBusy => Locates(hist) < MaxLocates
    /\ last' = [via |-> "locate", req |-> 0,
                log |-> IF isBusy THEN <<"ignored">> ELSE <<>>, inp |-> <<>>]
    /\ IF isBusy
         THEN UNCHANGED <<phase, kind, timeout_ms, att, calls, hist, ipVars,
                          geo_src, geo_timeout>>
       ELSE IF ~available
         THEN /\ phase = "Idle"
              /\ phase' = "Issued"
              /\ kind' = "json"
              /\ timeout_ms' = geocode_timeout
              /\ IpCommit(fallback_ip_async([IpMem EXCEPT !.hist = Located(hist)],
                                "No system location provider. Using IP location..."), att)
              /\ geo_src' = "None"
              /\ UNCHANGED geo_timeout
       ELSE /\ statusText' = "Locating..."
            /\ hist' = Located(hist)
            /\ geo_src' = "active"
            /\ geo_timeout' = "active"
            /\ UNCHANGED <<phase, kind, timeout_ms, att, calls, idx, latitude, longitude,
                           armed>>
    /\ UNCHANGED <<retry_enabled, retries, attempts_left, backoff, okCount, errCount,
                   adapterVars, simplifyVars, isBusy, route_points, route_distance_m,
                   route_duration_s, destination_text>>

(* on_ok, lines 140-146: the source reports a position *)
PositionUpdated(pos) ==
    /\ geo_src = "active"
    /\ latitude' = pos.lat
    /\ longitude' = pos.lon
    /\ statusText' = "Got location from system services."
    /\ geo_timeout' = "None"
    /\ geo_src' = "None"
    /\ hist' = hist \cup {<<"system", 0>>}
    /\ last' = [via |-> "positionUpdated", req |-> 0, log |-> <<>>, inp |-> <<>>]
    /\ UNCHANGED <<retry_enabled, retries, phase, kind, timeout_ms, attempts_left, att,
                   backoff, calls, okCount, errCount, adapterVars, simplifyVars, idx, armed,
                   isBusy, route_points, route_distance_m, route_duration_s,
                   destination_text>>

(* fire, lines 280-283: the locate timeout ends the wait for the source *)
GeoTimeoutFire ==
    /\ geo_timeout = "active"
    /\ phase = "Idle"
    /\ phase' = "Issued"
    /\ kind' = "json"
    /\ timeout_ms' = geocode_timeout
    /\ IpCommit(fallback_ip_async(IpMem, "Using approximate IP location..."), att)
    /\ geo_src' = "None"
    /\ geo_timeout' = "expired"
    /\ last' = [via |-> "geo_timeout", req |-> 0, log |-> <<>>, inp |-> <<>>]
    /\ UNCHANGED <<retry_enabled, retries, attempts_left, backoff, okCount, errCount,
                   adapterVars, simplifyVars, isBusy, route_points, route_distance_m,
                   route_duration_s, destination_text>>

LocateCall == \E available \in BOOLEAN : Locate(available)

SystemFix == \E pos \in SysPositions : PositionUpdated(pos)

NextLocate == LocateCall \/ SystemFix \/ GeoTimeoutFire \/ IpReply \/ IpTimeout \/ IpBackoff

LocateSpec == InitIp /\ [][NextLocate]_vars

----------------------------------------------------------------------------
(* Backend.routeTo (backend.py 159-261) over the pipeline: the geocode request
   (1) and the route request (2) are requests of their own, each with its
   attempts and backoff timers; armed[r] counts the backoff timers of request r.
   The attempt counter calls of the pipeline is not kept here.
   Texts are sequences of characters. One routeTo with a destination is
   followed per behaviour. *)

(* routing.py, line 41: the default route timeout *)
route_timeout == 15000

(* what the user types *)
Texts == {<<>>, <<" ">>, <<" ", "B">>}

(* what parse_route hands to on_ok for a well-formed route body *)
RouteAnswers ==
    {[path |-> <<(<<0, 0>>), (<<1, 1>>), (<<2, 2>>), (<<3, 0>>)>>,
      distance |-> F(12000, 1), duration |-> F(900, 1)],
     [path |-> <<(<<0, 0>>), (<<1, 3>>), (<<5, 5>>)>>,
      distance |-> F(300000, 1), duration |-> F(9000, 1)]}

rt_kind(r) == IF r = 1 THEN "geocode" ELSE "route"

(* the on_err handed to geocode_async (line 261) and to route_async (line 193) *)
rt_on_err(m, r, msg) == IF r = 1 THEN geo_err(m, msg) ELSE route_err(m, msg)

(* _parse_nominatim / parse_route on a decoded body, then geo_ok or route_ok *)
rt_on_ok(m, r, body, ans) ==
    LET p == Adapter(rt_kind(r), body)
    IN  IF ~p.ok THEN rt_on_err(m, r, p.msg)
        ELSE IF r = 1 THEN geo_ok(m)
        ELSE route_ok(m, ans.path, ans.distance, ans.duration)

(* _maybe_retry, lines 189-210, with retry_fn and final_err of request r *)
rt_maybe_retry(m, r, msg, st) ==
    IF transient(st) /\ retry_enabled
      THEN [m EXCEPT !.armed[r] = @ + 1]
      ELSE rt_on_err(m, r, msg)

(* finish, lines 240-269, for an attempt of request r *)
rt_finish(m, r, err, st, body, ans) ==
    LET o == FinishOutcome(err, st, body)
    IN  IF o.cont = "on_ok" THEN rt_on_ok(m, r, body, ans)
        ELSE rt_maybe_retry(m, r, o.msg, o.status)

(* attempt() of request r: a new reply with its timeout timer *)
rt_attempt(r) ==
    [req |-> r] @@ single_json_get(IF r = 1 THEN geocode_timeout ELSE route_timeout)

(* h with the requests that the handlers of log issued (geo_ok calls
   route_async), each numbered by its run, up to MaxCb runs *)
RECURSIVE Recorded(_, _)
Recorded(h, log) ==
    IF log = <<>> THEN h
    ELSE LET n == Cardinality({e \in h : e[1] = Head(log)})
         IN  Recorded(IF Head(log) = "geo_ok" /\ n < MaxCb
                        THEN h \cup {<<Head(log), n + 1>>} ELSE h, Tail(log))

(* writes the handlers' memory back and starts the attempts they asked for, on
   top of the attempts rest that stay unresolved *)
RouteCommit(m, rest) ==
    /\ Len(rest) + Len(m.started) + m.armed[1] + m.armed[2] <= MaxLive
    /\ BackendCommit(m)
    /\ armed' = m.armed
    /\ hist' = Recorded(hist, m.log)
    /\ att' = rest \o [i \in 1..Len(m.started) |-> rt_attempt(m.started[i])]

(* routeTo, lines 159-182 and 261: ignored while busy or within the debounce
   interval; otherwise the stripped text is stored, and with a destination the
   Backend turns busy and geocode_async starts the geocode request *)
RouteTo(text, debounced) ==
    LET dest == Strip(text)
    IN  /\ dest # <<>> /\ ~isBusy /\ ~debounced => phase = "Idle" /\ Len(att) < MaxLive
        /\ IF isBusy \/ debounced
             THEN /\ last' = [via |-> "routeTo", req |-> 0, log |-> <<"ignored">>, inp |-> <<>>]
                  /\ UNCHANGED <<phase, kind, timeout_ms, att, destination_text,
                                 statusText, isBusy>>
           ELSE IF dest = <<>>
             THEN /\ last' = [via |-> "routeTo", req |-> 0, log |-> <<"empty">>, inp |-> <<>>]
                  /\ destination_text' = dest
                  /\ statusText' = "Enter a destination address."
                  /\ UNCHANGED <<phase, kind, timeout_ms, att, isBusy>>
           ELSE /\ last' = [via |-> "routeTo", req |-> 1, log |-> <<"geocode">>, inp |-> <<>>]
                /\ destination_text' = dest
                /\ isBusy' = TRUE
                /\ statusText' = "Geocoding..."
                /\ phase' = "Issued"
                /\ kind' = "geocode"
                /\ timeout_ms' = geocode_timeout
                /\ att' = Append(att, rt_attempt(1))
                /\ UNCHANGED hist
        /\ UNCHANGED <<retry_enabled, retries, attempts_left, backoff, calls, okCount,
                       errCount, hist, adapterVars, simplifyVars, idx, latitude, longitude, armed,
                       route_points, route_distance_m, route_duration_s,
                       geo_src, geo_timeout>>

(* clearRoute, lines 264-272 *)
ClearRoute ==
    /\ route_points' = <<>>
    /\ route_distance_m' = F(0, 1)
    /\ route_duration_s' = F(0, 1)
    /\ statusText' = "Route cleared."
    /\ last' = [via |-> "clearRoute", req |-> 0, log |-> <<>>, inp |-> <<>>]
    /\ UNCHANGED <<retry_enabled, retries, phase, kind, timeout_ms, attempts_left, att,
                   backoff, calls, okCount, errCount, hist, adapterVars, simplifyVars, idx, latitude, longitude,
                   armed, isBusy, destination_text, geo_src, geo_timeout>>

(* the reply of attempt a ends by itself and emits finished() *)
RtTransportFinish(a, err, st, body, ans) ==
    /\ Running(a)
    /\ att[a].connected
    /\ err # "NoError" => body = "empty"
    /\ ~(200 <= st /\ st < 300) => body = "empty"   \* only a 2xx body reaches the adapter
    /\ err = "ConnectionRefusedError" => st = NoStatus
    /\ err = "NoError" => st # NoStatus
    /\ LET m == rt_finish(BMem, att[a].req, err, st, body, ans)
       IN  /\ RouteCommit(m, Drop(a))
           /\ last' = [via |-> "finish", req |-> att[a].req, log |-> m.log, inp |-> <<>>]
    /\ UNCHANGED <<retry_enabled, retries, phase, kind, timeout_ms, attempts_left, backoff,
                   calls, adapterVars, idx, latitude, longitude, destination_text,
                   geo_src, geo_timeout>>

(* the timeout timer of attempt a fires: on_timeout aborts the running reply,
   whose finished() runs finish at once, and then reports the timeout itself *)
RtTimerFire(a, hs) ==
    /\ att[a].timer = "active"
    /\ LET r == att[a].req
           m1 == IF Running(a) /\ att[a].connected
                   THEN rt_finish(BMem, r, "OperationCanceledError", hs, "empty",
                                  CHOOSE ans \in RouteAnswers : TRUE)
                   ELSE BMem
           m2 == rt_maybe_retry(m1, r, "Request timed out.", NoStatus)
       IN  /\ RouteCommit(m2, Drop(a))
           /\ last' = [via |-> "timeout", req |-> r, log |-> m2.log, inp |-> <<>>]
    /\ UNCHANGED <<retry_enabled, retries, phase, kind, timeout_ms, attempts_left, backoff,
                   calls, adapterVars, idx, latitude, longitude, destination_text,
                   geo_src, geo_timeout>>

(* a backoff timer of request r fires: fire, then attempt() *)
RtBackoffFire(r) ==
    /\ armed[r] > 0
    /\ Len(att) < MaxLive
    /\ armed' = [armed EXCEPT ![r] = @ - 1]
    /\ att' = Append(att, rt_attempt(r))
    /\ last' = [via |-> "backoff", req |-> r, log |-> <<>>, inp |-> <<>>]
    /\ UNCHANGED <<retry_enabled, retries, phase, kind, timeout_ms, attempts_left, backoff,
                   calls, okCount, errCount, hist, adapterVars, simplifyVars, idx, latitude,
                   longitude, statusText, backendVars>>

RtCall == \E text \in Texts, debounced \in BOOLEAN : RouteTo(text, debounced)

RtReply ==
    \E a \in Live, err \in NetErrors, st \in StatusSet, body \in Bodies, ans \in RouteAnswers :
        /\ (att[a].req = 1 \/ body # "good" \/ err # "NoError" \/ ~(200 <= st /\ st < 300))
              => ans = CHOOSE x \in RouteAnswers : TRUE
        /\ RtTransportFinish(a, err, st, body, ans)

RtTimeout == \E a \in Live, hs \in StatusSet : RtTimerFire(a, hs)

RtBackoff == \E r \in {q \in 1..2 : armed[q] > 0} : RtBackoffFire(r)

(* locate() is followed here only while a route is being computed *)
LocateBusy == isBusy /\ LocateCall

NextRoute == RtCall \/ LocateBusy \/ ClearRoute \/ RtReply \/ RtTimeout \/ RtBackoff

InitRoute ==
    /\ retry_enabled \in BOOLEAN /\ retries = MaxRetries
    /\ phase = "Idle" /\ kind = "none"
    /\ timeout_ms = 0 /\ attempts_left = 0 /\ att = <<>> /\ backoff = 0
    /\ calls = 0 /\ okCount = 0 /\ errCount = 0
    /\ last = [via |-> "none", req |-> 0, log |-> <<>>, inp |-> <<>>]
    /\ hist = {}
    /\ AdapterIdle /\ SimplifyIdle /\ IpIdle /\ BackendIdle

RouteSpec == InitRoute /\ [][NextRoute]_vars

----------------------------------------------------------------------------
(* Claims about routeTo. Every step of RouteSpec describes itself in last':
   the call or event (via), the request it belongs to (req) and the handlers
   that ran (log). *)

RouteState == <<route_points, route_distance_m, route_duration_s>>

(* handler h ran in the step *)
Ran(h) == \E i \in 1..Len(last'.log) : last'.log[i] = h

(* the attempts and backoff timers of the route request *)
RouteRequests(a, ar) == Cardinality({i \in 1..Len(a) : a[i].req = 2}) + ar[2]

(* routeTo stores the route only in a step in which route_ok ran *)
StoredOnlyByRouteOk ==
    (RouteState' # RouteState /\ last'.via # "clearRoute") => Ran("route_ok")

(* route_async is called by geo_ok alone, which runs on a reply of the geocode
   request; the route request grows otherwise only by its own backoff timers *)
RouteAfterGeocode ==
    /\ Ran("geo_ok") => last'.via = "finish" /\ last'.req = 1
    /\ RouteRequests(att', armed') > RouteRequests(att, armed) =>
          Ran("geo_ok") \/ last'.req = 2

(* the step is routeTo with an empty destination, or a handler of a failure ran *)
FailureStep ==
    \/ last'.via = "routeTo" /\ last'.log = <<"empty">>
    \/ (Ran("geo_err") \/ Ran("route_err")) /\ ~Ran("route_ok")

(* C25 as stated: routeTo changes the stored route state only when the route
   request succeeds, and the route request is issued only after the geocode
   request succeeded; on an empty destination, a geocode failure or a route
   failure the route is unchanged and only status and isBusy change. *)
C25_OnlyStatusAndBusy ==
    [][/\ StoredOnlyByRouteOk
       /\ RouteAfterGeocode
       /\ FailureStep =>
             /\ RouteState' = RouteState
             /\ UNCHANGED <<destination_text, latitude, longitude>>]_vars

(* C25, amended: as above, but on an empty destination the stored destination
   text changes too (routeTo stores the stripped text before it tests it). *)
C25_RouteFrame ==
    [][/\ StoredOnlyByRouteOk
       /\ RouteAfterGeocode
       /\ FailureStep =>
             /\ RouteState' = RouteState
             /\ UNCHANGED <<latitude, longitude>>
             /\ last'.via # "routeTo" => UNCHANGED destination_text]_vars

(* the geocode and then the route request succeeded and the route is stored *)
C25_Witness ==
    /\ last.via = "finish" /\ last.req = 2 /\ last.log = <<"route_ok">>
    /\ <<"geo_ok", 1>> \in hist
    /\ destination_text = <<"B">>
    /\ route_points = <<(<<0, 0>>), (<<3, 0>>)>>
    /\ route_distance_m = F(12000, 1)
    /\ statusText = "Route ready." /\ ~isBusy

----------------------------------------------------------------------------
(* Claims about locate() *)

(* the IP lookup stored a position *)
IpWrote(h) == \E p \in 1..Len(endpoints) : <<"coords", p>> \in h

(* the position the system source gave to the latest locate() stays as it is
   until the next locate() *)
SystemPositionKept ==
    (<<"system", 0>> \in hist /\ <<"system", 0>> \in hist') =>
        (latitude' = latitude /\ longitude' = longitude)

(* after a single locate() not both sources have written the position *)
OneSourcePerLocate ==
    Locates(hist') <= 1 => ~(<<"system", 0>> \in hist' /\ IpWrote(hist'))

(* C28: over any sequence of locate() calls a position set from the system
   provider is changed only by a locate() call made after it: for one locate()
   at most one of the two sources writes latitude and longitude, and an IP
   reply that belongs to an earlier locate() never overwrites the position a
   later locate() got from the system provider. *)
C28_SystemPositionStable == [][SystemPositionKept /\ OneSourcePerLocate]_vars

----------------------------------------------------------------------------
(* route_async was called at most once *)
OneRouteRequest == Cardinality({e \in hist : e[1] = "geo_ok"}) <= 1

(* route_ok, route_err and geo_err ran at most once in all, and the Backend is
   busy from the accepted routeTo until that run *)
HandlersOnce ==
    /\ okCount + errCount <= 1
    /\ phase = "Issued" => (isBusy <=> okCount + errCount = 0)

(* a routeTo or locate call made while busy starts nothing *)
BusyCallsIgnored ==
    (isBusy /\ last'.via \in {"routeTo", "locate"}) =>
        UNCHANGED <<att, armed, isBusy, geo_src, geo_timeout>>

(* C27: isBusy serialises routing: between routeTo setting isBusy and its
   reset at most one geocode request and then at most one route request are
   issued, route_ok / route_err / geo_err together run exactly once, isBusy is
   reset exactly then, and a routeTo or locate call made while busy starts no
   request. *)
C27_BusySerialises == [][OneRouteRequest' /\ HandlersOnce' /\ BusyCallsIgnored]_vars

====
